---------------------------- MODULE Spec2Model ----------------------------
(***************************************************************************)
(* Model of SpecSchedule.Next, SpecSchedule.Prev and dayMatches of         *)
(* src/spec.go (package cron): the field-cascade search for the next or    *)
(* previous activation instant of a cron schedule stored as bit sets.      *)
(*                                                                         *)
(* An instant (Go's time.Time) is a record                                 *)
(*     [day, sec, ns, loc]                                                 *)
(* day = whole days since 1970-01-01 UTC, sec = second of that UTC day,    *)
(* ns = nanosecond of the second, loc = the location the value presents    *)
(* its calendar fields in.  The split into day and sec keeps every number  *)
(* inside the checker's integers for the whole range 1..2100 of years.     *)
(***************************************************************************)
EXTENDS Integers, Sequences, FiniteSets, TLC

\* --------------------------------------------------------------------------
\* Program constants (src/spec.go, const block and var block)
\* --------------------------------------------------------------------------
maxBits == 160
minYear == 1970
maxYear == 2099

SecPerMinute == 60
SecPerHour   == 3600
SecPerDay    == 86400
NanosPerSec  == 1000000000

\* --------------------------------------------------------------------------
\* package time: the proleptic Gregorian calendar
\* --------------------------------------------------------------------------
IsLeap(y) == (y % 4 = 0) /\ ((y % 100 # 0) \/ (y % 400 = 0))

\* Days before the first of month m (1..12) in a non-leap year.
DaysBefore(m) ==
    CASE m = 1 -> 0   [] m = 2 -> 31  [] m = 3 -> 59  [] m = 4 -> 90
      [] m = 5 -> 120 [] m = 6 -> 151 [] m = 7 -> 181 [] m = 8 -> 212
      [] m = 9 -> 243 [] m = 10 -> 273 [] m = 11 -> 304 [] m = 12 -> 334

\* Leap years in 1..y.
LeapsThrough(y) == (y \div 4) - (y \div 100) + (y \div 400)

\* Days from 1970-01-01 to the first of January of year y.
DaysToYear(y) == 365 * (y - 1970) + LeapsThrough(y - 1) - LeapsThrough(1969)

\* time.Date's day count: the month is normalised into the year, the day of
\* the month is added as it is (day 0 and day 31 of a short month overflow
\* into the neighbouring month, as time.Date normalises them).
DayCount[y \in Int, m \in Int, d \in Int] ==
    LET yy == y + ((m - 1) \div 12)
        mm == ((m - 1) % 12) + 1
    IN  DaysToYear(yy) + DaysBefore(mm)
          + (IF IsLeap(yy) /\ mm >= 3 THEN 1 ELSE 0) + (d - 1)

DaysFromCivil(y, m, d) == DayCount[y, m, d]

\* The calendar date [y, m, d] of a day count, computed in stages: mp is the
\* month counted from March, doy the day of the year that starts on the first
\* of March, yoe and doe the year and the day of the 400-year era.
CivilOfMonth[y0 \in Int, doy \in Int, mp \in Int] ==
    [y |-> y0 + (IF mp < 10 THEN 0 ELSE 1),
     m |-> IF mp < 10 THEN mp + 3 ELSE mp - 9,
     d |-> doy - ((153 * mp + 2) \div 5) + 1]

CivilOfDay[y0 \in Int, doy \in Int] ==
    CivilOfMonth[y0, doy, (5 * doy + 2) \div 153]

CivilOfYear[era \in Int, doe \in Int, yoe \in Int] ==
    CivilOfDay[yoe + era * 400,
               doe - (365 * yoe + (yoe \div 4) - (yoe \div 100))]

CivilOfEra[era \in Int, doe \in Int] ==
    CivilOfYear[era, doe,
                (doe - (doe \div 1460) + (doe \div 36524) - (doe \div 146096)) \div 365]

Civil[n \in Int] ==
    CivilOfEra[(n + 719468) \div 146097, (n + 719468) % 146097]

CivilFromDays(n) == Civil[n]

\* A day count and a second count, carried into the range 0..86399.
Carry[day \in Int, sec \in Int] ==
    [day |-> day + (sec \div SecPerDay), sec |-> sec % SecPerDay]

Norm(day, sec) == Carry[day, sec]

\* --------------------------------------------------------------------------
\* package time: locations
\* --------------------------------------------------------------------------
UTC == "UTC"

\* A location with daylight saving whose transitions fall on local midnight:
\* Asia/Beirut under the rule it has followed since 1999 (IANA tz database,
\* rule Lebanon), applied here to every year.  Standard time is UTC+2; summer
\* time is UTC+3, from 00:00 standard time of the last Sunday of March (the
\* wall clock jumps to 01:00) to 00:00 summer time of the last Sunday of
\* October (the wall clock falls back to 23:00 of the Saturday).
Beirut == "Asia/Beirut"

StdOffset == 2 * SecPerHour
DstOffset == 3 * SecPerHour

\* The day count of the last Sunday of month m of year y (m has 31 days).
SundayOnOrBefore[n \in Int] == n - ((n + 4) % 7)

LastSunday(y, m) == SundayOnOrBefore[DaysFromCivil(y, m, 31)]

\* (day1, sec1) is at or before (day2, sec2).
AtOrBefore(d1, s1, d2, s2) == d1 < d2 \/ (d1 = d2 /\ s1 <= s2)

\* The offsets from UTC, in seconds, a location ever uses.
Offsets(loc) == IF loc = Beirut THEN {StdOffset, DstOffset} ELSE {0}

\* The UTC instants [day, sec] at which summer time starts and ends in year y.
SummerTime[y \in Int] ==
    [start |-> Norm(LastSunday(y, 3), -StdOffset),
     end   |-> Norm(LastSunday(y, 10), -DstOffset)]

\* The offset from UTC, in seconds, in force in loc at the UTC instant (day, sec).
Offset(loc, day, sec) ==
    IF loc = Beirut
    THEN IF \E dst \in {SummerTime[CivilFromDays(day).y]} :
               /\ AtOrBefore(dst.start.day, dst.start.sec, day, sec)
               /\ ~AtOrBefore(dst.end.day, dst.end.sec, day, sec)
         THEN DstOffset
         ELSE StdOffset
    ELSE 0

\* --------------------------------------------------------------------------
\* package time: time.Time values and the methods spec.go calls
\* --------------------------------------------------------------------------
\* A day count and a second of the day, as Norm gives them.
DaySecs == [day : Int, sec : Int]

TimeAt[n \in DaySecs, ns \in Int, loc \in STRING] ==
    [day |-> n.day, sec |-> n.sec, ns |-> ns, loc |-> loc]

MkTime(day, sec, ns, loc) == TimeAt[Norm(day, sec), ns, loc]

\* The values of time.Time.
Times == [day : Int, sec : Int, ns : Int, loc : STRING]

\* The wall clock of a time in its location: local day count and second of
\* day, as a function of the time.
WallClock[u \in Times] == Norm(u.day, u.sec + Offset(u.loc, u.day, u.sec))

Wall(t) == WallClock[t]

Year(t)       == CivilFromDays(Wall(t).day).y
Month(t)      == CivilFromDays(Wall(t).day).m
Day(t)        == CivilFromDays(Wall(t).day).d
Hour(t)       == Wall(t).sec \div SecPerHour
Minute(t)     == (Wall(t).sec % SecPerHour) \div SecPerMinute
Second(t)     == Wall(t).sec % SecPerMinute
Nanosecond(t) == t.ns
\* 0 = Sunday; 1970-01-01 was a Thursday.
Weekday(t)    == (Wall(t).day + 4) % 7

\* t.In(loc): the same instant, presented in loc.
In(t, loc) == [t EXCEPT !.loc = loc]

\* t.Add(d) for a duration of secs whole seconds.
Add(t, secs) == MkTime(t.day, t.sec + secs, t.ns, t.loc)

\* t.Add(d) for a duration of n nanoseconds, -10^9 < n < 10^9.
AddNanos(t, n) ==
    LET total == t.ns + n
    IN  MkTime(t.day, t.sec + (total \div NanosPerSec), total % NanosPerSec, t.loc)

\* A truncation that leaves the time as it is: not the library's, but the
\* variant against which a result is shown to depend on the truncation of
\* lines 178 and 190.
TruncateNot(u, unit) == u

\* t.Truncate(d) for d = unit seconds (time.Second or time.Minute): rounds the
\* time since the zero time down to a multiple of d.
Truncate(t, unit) == MkTime(t.day, t.sec - (t.sec % unit), 0, t.loc)

\* Of the candidate instants cand, those whose wall clock reads w; all of
\* them when none does.
Resolve[cand \in SUBSET Times, w \in DaySecs] ==
    UNION {IF good # {} THEN good ELSE cand :
              good \in {{u \in cand : Wall(u) = w}}}

\* The results time.Date may give for local day count lday and second lsec
\* (any integer: it is carried into the day) of the wall clock of loc.
WallTimes[lday \in Int, lsec \in Int, ns \in Int, loc \in STRING] ==
    Resolve[{MkTime(lday, lsec - off, ns, loc) : off \in Offsets(loc)},
            Norm(lday, lsec)]

\* time.Date(y, mo, d, h, mi, s, ns, loc): the instants whose wall clock in loc
\* reads the given (normalised) date and time.  A wall clock reading that a
\* transition repeats has two such instants, and one that a transition skips
\* has none: time.Date then "returns a time that is correct in one of the two
\* zones involved in the transition, but it does not guarantee which", so the
\* result is any of the candidates.
Date(y, mo, d, h, mi, s, ns, loc) ==
    WallTimes[DaysFromCivil(y, mo, d), h * SecPerHour + mi * SecPerMinute + s,
              ns, loc]

\* t.AddDate(years, months, days).
\* It is time.Date of the date of t's wall clock w, with years, months and days
\* added, and of the hour, minute and second of w.
AddDateAt[w \in DaySecs, years \in Int, months \in Int, days \in Int, ns \in Int, loc \in STRING] ==
    WallTimes[DayCount[Civil[w.day].y + years, Civil[w.day].m + months,
                       Civil[w.day].d + days],
              w.sec, ns, loc]

AddDate(t, years, months, days) ==
    AddDateAt[Wall(t), years, months, days, Nanosecond(t), t.loc]

\* time.Time{}: January 1, year 1, 00:00:00 UTC.
ZeroTime == MkTime(DaysFromCivil(1, 1, 1), 0, 0, UTC)

\* t.Before(u), t.After(u), t.Equal(u): instants compare regardless of location.
Before(t, u) ==
    \/ t.day < u.day
    \/ t.day = u.day /\ t.sec < u.sec
    \/ t.day = u.day /\ t.sec = u.sec /\ t.ns < u.ns
After(t, u)  == Before(u, t)
Equal(t, u)  == t.day = u.day /\ t.sec = u.sec /\ t.ns = u.ns
IsZero(t)    == Equal(t, ZeroTime)


\* --------------------------------------------------------------------------
\* SpecSchedule and dayMatches
\* --------------------------------------------------------------------------
\* A *big.Int used as a bit set is the set of the indices of its 1 bits.
Bit(mask, i) == IF i \in mask THEN 1 ELSE 0

\* The bounds of each field: the values a parser may set in its mask.
seconds == 0 .. 59
minutes == 0 .. 59
hours   == 0 .. 23
dom     == 1 .. 31
months  == 1 .. 12
dow     == 0 .. 6
years   == 0 .. (maxYear - minYear)

\* The location of a schedule that has none of its own.
Local == "Local"

\* Two day rules that are not the program's: one that ignores the day of the
\* month, and one that always takes either match.  They are the variants
\* against which the properties of the day rule are shown to depend on
\* dayMatches.
dayMatchesDowOnly(sch, u) == Bit(sch.Dow, Weekday(u)) > 0
dayMatchesEither(sch, u) == Bit(sch.Dom, Day(u)) > 0 \/ Bit(sch.Dow, Weekday(u)) > 0

\* Lines 379-388.
dayMatches(sch, t) ==
    LET domMatch == Bit(sch.Dom, Day(t)) > 0
        dowMatch == Bit(sch.Dow, Weekday(t)) > 0
    IN  IF Bit(sch.Dom, maxBits) > 0 \/ Bit(sch.Dow, maxBits) > 0
        THEN domMatch /\ dowMatch
        ELSE domMatch \/ dowMatch

\* --------------------------------------------------------------------------
\* State
\* --------------------------------------------------------------------------
VARIABLES
    s,            \* the SpecSchedule the calls are made on (never mutated)
    op,           \* the method running or last run: "none", "Next" or "Prev"
    pc,           \* position in the method: "idle", "wrap" (label WRAP), "year",
                  \* "month", "day", "hour", "minute", "second" (at the head of
                  \* that field's loop), "done" (returned)
    arg,          \* the instant the method was called with
    t,            \* the cursor (the parameter t, reassigned as the search moves)
    origLocation, \* local origLocation
    loc,          \* local loc
    added,        \* local added
    yearLimit,    \* local yearLimit
    addYear, addMonth, addDay, addHour, addMinute,   \* Prev's locals
    ret,          \* the value returned by the last call
    calls         \* calls made so far on this schedule

vars == << s, op, pc, arg, t, origLocation, loc, added, yearLimit,
           addYear, addMonth, addDay, addHour, addMinute, ret, calls >>

prevFlags == << addYear, addMonth, addDay, addHour, addMinute >>
callFrame == << s, op, arg, origLocation, loc, calls >>

\* --------------------------------------------------------------------------
\* func (s *SpecSchedule) Next(t time.Time) time.Time
\* --------------------------------------------------------------------------
\* The start that the comment of line 95 announces, the upcoming second: not
\* the program's start of Next, but the variant against which the results of
\* Next are shown to depend on line 96.
NextStartUpcoming(u) == AddNanos(Add(u, 1), -Nanosecond(u))

\* Line 96: t = t.Add(-1*time.Second - time.Duration(t.Nanosecond())*time.Nanosecond)
NextStart(u) == AddNanos(Add(u, -1), -Nanosecond(u))

\* The adjustment that line 228 holds as a comment, applied: not the
\* program's start of Prev, but the variant against which Prev is shown to
\* start at the given instant itself.
PrevStartUpcoming(u) == AddNanos(Add(u, 1), -Nanosecond(u))

\* Lines 227-228: Prev's adjustment of the start is commented out.
PrevStart(u) == u

\* Lines 86-102 and 218-240: the locations, the start of the search, the flags
\* and yearLimit.
Enter(name, t0) ==
    LET tIn == IF s.Location # Local THEN In(t0, s.Location) ELSE t0
    IN  /\ op' = name
        /\ arg' = t0
        /\ origLocation' = t0.loc
        /\ loc' = IF s.Location = Local THEN t0.loc ELSE s.Location
        /\ added' = FALSE
        /\ ret' = ret
        /\ calls' = calls + 1
        /\ pc' = "wrap"
        /\ s' = s
        /\ IF name = "Next"
           THEN /\ t' = NextStart(tIn)
                /\ yearLimit' = Year(NextStart(tIn)) + 5
           ELSE /\ t' = PrevStart(tIn)
                /\ yearLimit' = Year(PrevStart(tIn)) - 5
        /\ addYear' = FALSE /\ addMonth' = FALSE /\ addDay' = FALSE
        /\ addHour' = FALSE /\ addMinute' = FALSE

\* return time.Time{}
ReturnZero ==
    /\ ret' = ZeroTime
    /\ pc' = "done"

\* A horizon test that looks at the last representable year only: not the
\* program's test, but the variant against which the five-year horizon is
\* shown to depend on yearLimit.
NextPastMaxYear(u) == Year(u) > maxYear

\* Lines 105 and 115: the cursor has left the horizon of Next.
NextPastLimit(u) == Year(u) > yearLimit \/ Year(u) > maxYear

\* Label WRAP, lines 104-107.
NextWrap ==
    /\ op = "Next" /\ pc = "wrap"
    /\ IF NextPastLimit(t)
       THEN ReturnZero
       ELSE pc' = "year" /\ ret' = ret
    /\ UNCHANGED << t, added, yearLimit, prevFlags, callFrame >>

\* The year loop's condition, lines 109 and 247.
YearOff(u) == Year(u) < minYear \/ Bit(s.Year, Year(u) - minYear) = 0

\* One iteration of the loop of lines 109-118.
NextYear ==
    /\ op = "Next" /\ pc = "year"
    /\ YearOff(t)
    /\ \E t1 \in (IF added THEN {t} ELSE Date(Year(t), 1, 1, 0, 0, 0, 0, loc)) :
       \E t2 \in AddDate(t1, 1, 0, 0) :
          /\ t' = t2
          /\ IF NextPastLimit(t2)
             THEN ReturnZero
             ELSE pc' = "year" /\ ret' = ret
    /\ added' = TRUE
    /\ UNCHANGED << yearLimit, prevFlags, callFrame >>

\* A loop's condition is false: control passes to the statement after it.
Pass(from, to) ==
    /\ pc = from
    /\ pc' = to
    /\ UNCHANGED << t, added, yearLimit, prevFlags, callFrame, ret >>

NextYearDone   == op = "Next" /\ pc = "year" /\ ~YearOff(t) /\ Pass("year", "month")

\* One iteration of the loop of lines 122-135.
NextMonth ==
    /\ op = "Next" /\ pc = "month"
    /\ Bit(s.Month, Month(t)) = 0
    /\ \E t1 \in (IF added THEN {t}
                  ELSE Date(Year(t), Month(t), 1, 0, 0, 0, 0, loc)) :
       \E t2 \in AddDate(t1, 0, 1, 0) :
          /\ t' = t2
          /\ pc' = IF Month(t2) = 1 THEN "wrap" ELSE "month"
    /\ added' = TRUE
    /\ UNCHANGED << yearLimit, prevFlags, callFrame, ret >>

NextMonthDone  == op = "Next" /\ pc = "month" /\ Bit(s.Month, Month(t)) # 0 /\ Pass("month", "day")

\* Lines 150-156 and 303-309: back to midnight when a day step left it.
HoursToMidnight[h \in Int] ==
    IF h # 0
    THEN IF h > 12 THEN 24 - h ELSE -h
    ELSE 0

FixMidnight(u) == Add(u, HoursToMidnight[Hour(u)] * SecPerHour)

\* One iteration of the loop of lines 142-161.
NextDay ==
    /\ op = "Next" /\ pc = "day"
    /\ ~dayMatches(s, t)
    /\ \E t1 \in (IF added THEN {t}
                  ELSE Date(Year(t), Month(t), Day(t), 0, 0, 0, 0, loc)) :
       \E t2 \in AddDate(t1, 0, 0, 1) :
       \E t3 \in {FixMidnight(t2)} :
          /\ t' = t3
          /\ pc' = IF Day(t3) = 1 THEN "wrap" ELSE "day"
    /\ added' = TRUE
    /\ UNCHANGED << yearLimit, prevFlags, callFrame, ret >>

NextDayDone    == op = "Next" /\ pc = "day" /\ dayMatches(s, t) /\ Pass("day", "hour")

\* An hour test that looks at the hours after noon only, as if an hour before
\* noon could be reached through midnight alone: not the program's test, but
\* the variant against which the hour of a result is shown to depend on it.
HourOffAfterNoon(u) == Hour(u) > 12 /\ Bit(s.Hour, Hour(u)) = 0

\* The hour loop's condition, lines 163 and 323.
HourOff(u) == Bit(s.Hour, Hour(u)) = 0

\* One iteration of the loop of lines 163-173.
NextHour ==
    /\ op = "Next" /\ pc = "hour"
    /\ HourOff(t)
    /\ \E t1 \in (IF added THEN {t}
                  ELSE Date(Year(t), Month(t), Day(t), Hour(t), 0, 0, 0, loc)) :
          LET t2 == Add(t1, SecPerHour)
          IN  /\ t' = t2
              /\ pc' = IF Hour(t2) = 0 THEN "wrap" ELSE "hour"
    /\ added' = TRUE
    /\ UNCHANGED << yearLimit, prevFlags, callFrame, ret >>

NextHourDone   == op = "Next" /\ pc = "hour" /\ ~HourOff(t) /\ Pass("hour", "minute")

\* One iteration of the loop of lines 175-185.
NextMinute ==
    /\ op = "Next" /\ pc = "minute"
    /\ Bit(s.Minute, Minute(t)) = 0
    /\ LET t1 == IF added THEN t ELSE Truncate(t, SecPerMinute)
           t2 == Add(t1, SecPerMinute)
       IN  /\ t' = t2
           /\ pc' = IF Minute(t2) = 0 THEN "wrap" ELSE "minute"
    /\ added' = TRUE
    /\ UNCHANGED << yearLimit, prevFlags, callFrame, ret >>

NextMinuteDone == op = "Next" /\ pc = "minute" /\ Bit(s.Minute, Minute(t)) # 0 /\ Pass("minute", "second")

\* One iteration of the loop of lines 187-197.
NextSecond ==
    /\ op = "Next" /\ pc = "second"
    /\ Bit(s.Second, Second(t)) = 0
    /\ LET t1 == IF added THEN t ELSE Truncate(t, 1)
           t2 == Add(t1, 1)
       IN  /\ t' = t2
           /\ pc' = IF Second(t2) = 0 THEN "wrap" ELSE "second"
    /\ added' = TRUE
    /\ UNCHANGED << yearLimit, prevFlags, callFrame, ret >>

\* Lines 199 and 374: return t.In(origLocation)
NextReturn ==
    /\ op = "Next" /\ pc = "second"
    /\ Bit(s.Second, Second(t)) # 0
    /\ ret' = In(t, origLocation)
    /\ pc' = "done"
    /\ UNCHANGED << t, added, yearLimit, prevFlags, callFrame >>

\* --------------------------------------------------------------------------
\* func (s *SpecSchedule) Prev(t time.Time) time.Time
\* --------------------------------------------------------------------------
\* Label WRAP, lines 242-245.
PrevWrap ==
    /\ op = "Prev" /\ pc = "wrap"
    /\ IF Year(t) < yearLimit \/ Year(t) < minYear
       THEN ReturnZero
       ELSE pc' = "year" /\ ret' = ret
    /\ UNCHANGED << t, added, yearLimit, prevFlags, callFrame >>

\* One iteration of the loop of lines 247-257.
PrevYear ==
    /\ op = "Prev" /\ pc = "year"
    /\ YearOff(t)
    /\ \E t1 \in (IF added THEN {t} ELSE Date(Year(t), 1, 1, 0, 0, 0, 0, loc)) :
       \E t2 \in AddDate(t1, -1, 0, 0) :
          /\ t' = t2
          /\ IF Year(t2) < yearLimit \/ Year(t2) < minYear
             THEN ReturnZero
             ELSE pc' = "year" /\ ret' = ret
    /\ addYear' = TRUE
    /\ added' = TRUE
    /\ UNCHANGED << yearLimit, addMonth, addDay, addHour, addMinute, callFrame >>

\* Lines 258-262: the year loop is over and had decremented.
PrevYearFix ==
    /\ op = "Prev" /\ pc = "year"
    /\ ~YearOff(t)
    /\ addYear
    /\ addYear' = FALSE
    /\ \E t1 \in AddDate(t, 1, 0, 0) :
       \E t2 \in AddDate(t1, 0, -1, 0) :
          t' = t2
    /\ pc' = "month"
    /\ UNCHANGED << added, yearLimit, addMonth, addDay, addHour, addMinute,
                    callFrame, ret >>

PrevYearDone   == op = "Prev" /\ pc = "year" /\ ~YearOff(t) /\ ~addYear /\ Pass("year", "month")

\* A month step that leaves the cursor where it is: not the program's step,
\* but the variant against which termination is shown to depend on it.
PrevMonthStay(u) == {u}

\* Lines 275-280: the month loop's step and its wrap test.
PrevMonthStep(u) == AddDate(u, 0, -1, 0)
PrevMonthWrapped(u) == Month(u) = 1

\* One iteration of the loop of lines 267-281.
PrevMonth ==
    /\ op = "Prev" /\ pc = "month"
    /\ Bit(s.Month, Month(t)) = 0
    /\ \E t1 \in (IF added THEN {t}
                  ELSE Date(Year(t), Month(t), 1, 0, 0, 0, 0, loc)) :
       \E t2 \in PrevMonthStep(t1) :
          /\ t' = t2
          /\ pc' = IF PrevMonthWrapped(t2) THEN "wrap" ELSE "month"
    /\ addMonth' = TRUE
    /\ added' = TRUE
    /\ UNCHANGED << yearLimit, addYear, addDay, addHour, addMinute, callFrame, ret >>

\* Lines 283-287: the month loop is over and had decremented.
PrevMonthFix ==
    /\ op = "Prev" /\ pc = "month"
    /\ Bit(s.Month, Month(t)) # 0
    /\ addMonth
    /\ addMonth' = FALSE
    /\ \E t1 \in AddDate(t, 0, 1, 0) :
       \E t2 \in AddDate(t1, 0, 0, -1) :
          t' = t2
    /\ pc' = "day"
    /\ UNCHANGED << added, yearLimit, addYear, addDay, addHour, addMinute,
                    callFrame, ret >>

PrevMonthDone  ==
    op = "Prev" /\ pc = "month" /\ Bit(s.Month, Month(t)) # 0 /\ ~addMonth /\ Pass("month", "day")

\* One iteration of the loop of lines 294-314.
PrevDay ==
    /\ op = "Prev" /\ pc = "day"
    /\ ~dayMatches(s, t)
    /\ \E t1 \in (IF added THEN {t}
                  ELSE Date(Year(t), Month(t), Day(t), 0, 0, 0, 0, loc)) :
       \E t2 \in AddDate(t1, 0, 0, -1) :
       \E t3 \in {FixMidnight(t2)} :
          /\ t' = t3
          /\ pc' = IF Day(t3) = 1 THEN "wrap" ELSE "day"
    /\ addDay' = TRUE
    /\ added' = TRUE
    /\ UNCHANGED << yearLimit, addYear, addMonth, addHour, addMinute, callFrame, ret >>

\* Lines 316-320: the day loop is over and had decremented.
PrevDayFix ==
    /\ op = "Prev" /\ pc = "day"
    /\ dayMatches(s, t)
    /\ addDay
    /\ addDay' = FALSE
    /\ \E t1 \in AddDate(t, 0, 0, 1) :
          t' = Add(t1, -SecPerHour)
    /\ pc' = "hour"
    /\ UNCHANGED << added, yearLimit, addYear, addMonth, addHour, addMinute,
                    callFrame, ret >>

PrevDayDone    == op = "Prev" /\ pc = "day" /\ dayMatches(s, t) /\ ~addDay /\ Pass("day", "hour")

\* One iteration of the loop of lines 323-334.
PrevHour ==
    /\ op = "Prev" /\ pc = "hour"
    /\ HourOff(t)
    /\ \E t1 \in (IF added THEN {t}
                  ELSE Date(Year(t), Month(t), Day(t), Hour(t), 0, 0, 0, loc)) :
          LET t2 == Add(t1, -SecPerHour)
          IN  /\ t' = t2
              /\ pc' = IF Hour(t2) = 0 THEN "wrap" ELSE "hour"
    /\ addHour' = TRUE
    /\ added' = TRUE
    /\ UNCHANGED << yearLimit, addYear, addMonth, addDay, addMinute, callFrame, ret >>

\* Lines 336-340: the hour loop is over and had decremented.
PrevHourFix ==
    /\ op = "Prev" /\ pc = "hour"
    /\ ~HourOff(t)
    /\ addHour
    /\ addHour' = FALSE
    /\ t' = Add(Add(t, SecPerHour), -SecPerMinute)
    /\ pc' = "minute"
    /\ UNCHANGED << added, yearLimit, addYear, addMonth, addDay, addMinute,
                    callFrame, ret >>

PrevHourDone   ==
    op = "Prev" /\ pc = "hour" /\ ~HourOff(t) /\ ~addHour /\ Pass("hour", "minute")

\* One iteration of the loop of lines 343-354.
PrevMinute ==
    /\ op = "Prev" /\ pc = "minute"
    /\ Bit(s.Minute, Minute(t)) = 0
    /\ LET t1 == IF added THEN t ELSE Truncate(t, SecPerMinute)
           t2 == Add(t1, -SecPerMinute)
       IN  /\ t' = t2
           /\ pc' = IF Minute(t2) = 0 THEN "wrap" ELSE "minute"
    /\ addMinute' = TRUE
    /\ added' = TRUE
    /\ UNCHANGED << yearLimit, addYear, addMonth, addDay, addHour, callFrame, ret >>

\* Lines 356-360: the minute loop is over and had decremented.
PrevMinuteFix ==
    /\ op = "Prev" /\ pc = "minute"
    /\ Bit(s.Minute, Minute(t)) # 0
    /\ addMinute
    /\ addMinute' = FALSE
    /\ t' = Add(Add(t, SecPerMinute), -1)
    /\ pc' = "second"
    /\ UNCHANGED << added, yearLimit, addYear, addMonth, addDay, addHour,
                    callFrame, ret >>

PrevMinuteDone ==
    op = "Prev" /\ pc = "minute" /\ Bit(s.Minute, Minute(t)) # 0 /\ ~addMinute /\ Pass("minute", "second")

\* One iteration of the loop of lines 362-372.
PrevSecond ==
    /\ op = "Prev" /\ pc = "second"
    /\ Bit(s.Second, Second(t)) = 0
    /\ LET t1 == IF added THEN t ELSE Truncate(t, 1)
           t2 == Add(t1, -1)
       IN  /\ t' = t2
           /\ pc' = IF Second(t2) = 0 THEN "wrap" ELSE "second"
    /\ added' = TRUE
    /\ UNCHANGED << yearLimit, prevFlags, callFrame, ret >>

\* Line 374: return t.In(origLocation)
PrevReturn ==
    /\ op = "Prev" /\ pc = "second"
    /\ Bit(s.Second, Second(t)) # 0
    /\ ret' = In(t, origLocation)
    /\ pc' = "done"
    /\ UNCHANGED << t, added, yearLimit, prevFlags, callFrame >>

\* --------------------------------------------------------------------------
\* The schedules and the instants the calls are made with
\* --------------------------------------------------------------------------
\* The mask a parser builds for "*": every value of the field and the flag bit.
Star(range) == range \cup {maxBits}

Every5 == {0, 5, 10, 15, 20, 25, 30, 35, 40, 45, 50, 55}

\* Second, minute and hour masks.
ClockPatterns ==
    << [Second |-> Star(seconds), Minute |-> Star(minutes), Hour |-> Star(hours)],
       [Second |-> {0},           Minute |-> Every5,        Hour |-> Star(hours)],
       [Second |-> {0},           Minute |-> {0},           Hour |-> {0}],
       [Second |-> {30},          Minute |-> {59},          Hour |-> {23}],
       [Second |-> {0},           Minute |-> Star(minutes), Hour |-> Star(hours)],
       [Second |-> Star(seconds), Minute |-> {30},          Hour |-> {2}],
       [Second |-> {59},          Minute |-> Star(minutes), Hour |-> {0, 12}] >>

\* Day-of-month, month, day-of-week and year masks.
DatePatterns ==
    << [Dom |-> Star(dom), Month |-> Star(months), Dow |-> Star(dow), Year |-> Star(years)],
       [Dom |-> {15},      Month |-> Star(months), Dow |-> Star(dow), Year |-> Star(years)],
       [Dom |-> Star(dom), Month |-> {2},          Dow |-> Star(dow), Year |-> Star(years)],
       [Dom |-> {31},      Month |-> {2},          Dow |-> Star(dow), Year |-> Star(years)],
       [Dom |-> Star(dom), Month |-> {12},         Dow |-> Star(dow), Year |-> {2021 - minYear}],
       [Dom |-> Star(dom), Month |-> Star(months), Dow |-> {1},       Year |-> Star(years)],
       [Dom |-> {15},      Month |-> Star(months), Dow |-> {1},       Year |-> Star(years)],
       [Dom |-> {28},      Month |-> {3},          Dow |-> Star(dow), Year |-> Star(years)],
       [Dom |-> Star(dom), Month |-> Star(months), Dow |-> Star(dow), Year |-> {2030 - minYear}],
       [Dom |-> {29},      Month |-> {2},          Dow |-> Star(dow), Year |-> Star(years)],
       [Dom |-> {27},      Month |-> {3},          Dow |-> Star(dow), Year |-> Star(years)],
       [Dom |-> Star(dom), Month |-> {},           Dow |-> Star(dow), Year |-> Star(years)],
       [Dom |-> {28},      Month |-> {3},          Dow |-> Star(dow), Year |-> {2021 - minYear}],
       [Dom |-> {15, maxBits}, Month |-> Star(months), Dow |-> {1, maxBits}, Year |-> Star(years)],
       [Dom |-> {31},      Month |-> {2},          Dow |-> {1},       Year |-> Star(years)] >>

ScheduleLocations == {Local, Beirut}

\* The instants calls are made with, as wall clock readings in a location.
Readings ==
    << [y |-> 2021, mo |-> 3,  d |-> 15, h |-> 10, mi |-> 3,  s |-> 0,  ns |-> 0,         loc |-> UTC],
       [y |-> 2021, mo |-> 3,  d |-> 27, h |-> 22, mi |-> 30, s |-> 0,  ns |-> 0,         loc |-> Beirut],
       [y |-> 2021, mo |-> 3,  d |-> 1,  h |-> 0,  mi |-> 0,  s |-> 0,  ns |-> 0,         loc |-> UTC],
       [y |-> 2099, mo |-> 12, d |-> 31, h |-> 23, mi |-> 59, s |-> 59, ns |-> 0,         loc |-> UTC],
       [y |-> 1970, mo |-> 1,  d |-> 1,  h |-> 0,  mi |-> 0,  s |-> 0,  ns |-> 0,         loc |-> UTC],
       [y |-> 2020, mo |-> 2,  d |-> 29, h |-> 12, mi |-> 0,  s |-> 30, ns |-> 500000000, loc |-> UTC],
       [y |-> 2021, mo |-> 3,  d |-> 29, h |-> 0,  mi |-> 0,  s |-> 0,  ns |-> 0,         loc |-> Beirut],
       [y |-> 2024, mo |-> 1,  d |-> 1,  h |-> 0,  mi |-> 0,  s |-> 0,  ns |-> 0,         loc |-> UTC],
       [y |-> 2035, mo |-> 1,  d |-> 1,  h |-> 0,  mi |-> 0,  s |-> 0,  ns |-> 0,         loc |-> UTC],
       [y |-> 2021, mo |-> 10, d |-> 30, h |-> 23, mi |-> 30, s |-> 0,  ns |-> 0,         loc |-> Beirut],
       [y |-> 2021, mo |-> 3,  d |-> 31, h |-> 0,  mi |-> 0,  s |-> 1,  ns |-> 0,         loc |-> UTC],
       [y |-> 1969, mo |-> 6,  d |-> 1,  h |-> 0,  mi |-> 0,  s |-> 0,  ns |-> 0,         loc |-> UTC],
       [y |-> 2100, mo |-> 1,  d |-> 1,  h |-> 0,  mi |-> 0,  s |-> 1,  ns |-> 0,         loc |-> UTC] >>

\* Bounds: how many of the patterns and readings above a run draws from, and how
\* many calls are made on one schedule.
MaxClockPatterns == 6
MaxDatePatterns  == 15
MaxReadings      == 12
MaxCalls         == 2

Prefix(seq, n) == {seq[i] : i \in 1 .. (IF n < Len(seq) THEN n ELSE Len(seq))}

Schedules ==
    {[Second |-> c.Second, Minute |-> c.Minute, Hour |-> c.Hour,
      Dom |-> d.Dom, Month |-> d.Month, Dow |-> d.Dow, Year |-> d.Year,
      Location |-> l] :
        c \in Prefix(ClockPatterns, MaxClockPatterns),
        d \in Prefix(DatePatterns, MaxDatePatterns),
        l \in ScheduleLocations}

Instants ==
    UNION {Date(r.y, r.mo, r.d, r.h, r.mi, r.s, r.ns, r.loc) :
             r \in Prefix(Readings, MaxReadings)}

\* --------------------------------------------------------------------------
\* The state machine
\* --------------------------------------------------------------------------
Init ==
    /\ s \in Schedules
    /\ op = "none"
    /\ pc = "idle"
    /\ arg = ZeroTime
    /\ t = ZeroTime
    /\ origLocation = UTC
    /\ loc = UTC
    /\ added = FALSE
    /\ yearLimit = 0
    /\ addYear = FALSE /\ addMonth = FALSE /\ addDay = FALSE
    /\ addHour = FALSE /\ addMinute = FALSE
    /\ ret = ZeroTime
    /\ calls = 0

\* A caller calls s.Next(t0).
NextCall ==
    /\ pc = "idle"
    /\ \E t0 \in Instants : Enter("Next", t0)

\* A caller calls s.Next again, on the instant the last call of Next returned.
NextAgain ==
    /\ pc = "done" /\ op = "Next"
    /\ calls < MaxCalls
    /\ ~IsZero(ret)
    /\ Enter("Next", ret)

\* A caller calls s.Prev(t0).
PrevCall ==
    /\ pc = "idle"
    /\ \E t0 \in Instants : Enter("Prev", t0)

\* The steps of a call that is running.
Step ==
    \/ NextWrap
    \/ NextYear \/ NextYearDone
    \/ NextMonth \/ NextMonthDone
    \/ NextDay \/ NextDayDone
    \/ NextHour \/ NextHourDone
    \/ NextMinute \/ NextMinuteDone
    \/ NextSecond \/ NextReturn
    \/ PrevWrap
    \/ PrevYear \/ PrevYearFix \/ PrevYearDone
    \/ PrevMonth \/ PrevMonthFix \/ PrevMonthDone
    \/ PrevDay \/ PrevDayFix \/ PrevDayDone
    \/ PrevHour \/ PrevHourFix \/ PrevHourDone
    \/ PrevMinute \/ PrevMinuteFix \/ PrevMinuteDone
    \/ PrevSecond \/ PrevReturn

Next == NextCall \/ NextAgain \/ PrevCall \/ Step

Spec == Init /\ [][Next]_vars

\* Next and Prev are synchronous functions: a call that has started keeps
\* executing its next statement.  Nothing obliges a caller to make a call.
FairSpec == Spec /\ WF_vars(Step)


\* --------------------------------------------------------------------------
\* Properties
\* --------------------------------------------------------------------------
\* A call is executing.
Running == pc \notin {"idle", "done"}

\* Next, or Prev, has returned; ret is what it returned for arg.
NextReturned == pc = "done" /\ op = "Next"
PrevReturned == pc = "done" /\ op = "Prev"

\* The instant u, read in its location, matches sch in every field.
Matches(sch, u) ==
    /\ Year(u) >= minYear
    /\ Bit(sch.Year, Year(u) - minYear) = 1
    /\ Bit(sch.Month, Month(u)) = 1
    /\ dayMatches(sch, u)
    /\ Bit(sch.Hour, Hour(u)) = 1
    /\ Bit(sch.Minute, Minute(u)) = 1
    /\ Bit(sch.Second, Second(u)) = 1

\* The largest and the smallest offset the location of the search uses
\* between the instants a and b: one offset when a and b have the same one
\* and are too close for two transitions to lie between them (transitions
\* are more than 140 days apart: in Asia/Beirut, at least from the last
\* Sunday of October to the last Sunday of March).
SameOffset(a, b) ==
    /\ Offset(loc, a.day, a.sec) = Offset(loc, b.day, b.sec)
    /\ b.day - a.day < 140
    /\ a.day - b.day < 140
MaxOff(a, b) ==
    IF SameOffset(a, b) THEN Offset(loc, a.day, a.sec)
    ELSE IF loc = Beirut THEN DstOffset ELSE 0
MinOff(a, b) ==
    IF SameOffset(a, b) THEN Offset(loc, a.day, a.sec)
    ELSE IF loc = Beirut THEN StdOffset ELSE 0

\* The wall clock interval from (d1, s1) to (d2, s2) of a location whose
\* offsets lie between lo and hi may hold an instant strictly between a and b.
Overlaps(d1, s1, d2, s2, a, b, lo, hi) ==
    /\ Before(MkTime(d1, s1 - hi, 0, loc), b)
    /\ After(MkTime(d2, s2 - lo, 0, loc), a)

\* The date y-mo-d passes dayMatches.
DayOk(y, mo, d) == dayMatches(s, MkTime(DaysFromCivil(y, mo, d), 0, 0, UTC))

\* Some whole-second instant strictly between a and b matches the schedule
\* s in the location of the search.  The candidates are enumerated field by
\* field from the masks, leaving out the years, months, days, hours and
\* minutes that lie wholly outside the interval.
MatchBetween(a, b) ==
    \E lo \in {MinOff(a, b)}, hi \in {MaxOff(a, b)} :
    \E y \in {yy \in (Year(In(a, loc)) - 1) .. (Year(In(b, loc)) + 1) :
                 yy >= minYear /\ Bit(s.Year, yy - minYear) = 1} :
      /\ Overlaps(DaysFromCivil(y, 1, 1), 0, DaysFromCivil(y + 1, 1, 1), 0, a, b, lo, hi)
      /\ \E mo \in s.Month \cap months :
         /\ Overlaps(DaysFromCivil(y, mo, 1), 0, DaysFromCivil(y, mo + 1, 1), 0, a, b, lo, hi)
         /\ \E d \in 1 .. (DaysFromCivil(y, mo + 1, 1) - DaysFromCivil(y, mo, 1)) :
            \E n \in {DaysFromCivil(y, mo, d)} :
            /\ DayOk(y, mo, d)
            /\ Overlaps(n, 0, n + 1, 0, a, b, lo, hi)
            /\ \E h \in s.Hour \cap hours :
               /\ Overlaps(n, h * SecPerHour, n, (h + 1) * SecPerHour, a, b, lo, hi)
               /\ \E mi \in s.Minute \cap minutes :
                  /\ Overlaps(n, h * SecPerHour + mi * SecPerMinute,
                              n, h * SecPerHour + (mi + 1) * SecPerMinute, a, b, lo, hi)
                  /\ \E sec \in s.Second \cap seconds :
                     \E u \in Date(y, mo, d, h, mi, sec, 0, loc) :
                        Matches(s, u) /\ After(u, a) /\ Before(u, b)

\* C1: whenever Next returns an instant other than the zero time, that
\* instant is strictly later than the instant Next was called with.
NextStrictlyLater ==
    (NextReturned /\ ~IsZero(ret)) => After(ret, arg)

\* C2: whenever Prev returns an instant other than the zero time, that
\* instant is strictly earlier than the instant Prev was called with.
PrevStrictlyEarlier ==
    (PrevReturned /\ ~IsZero(ret)) => Before(ret, arg)

\* C3: every instant other than the zero time that Next returns matches the
\* schedule in all fields at once: year, month, day (dayMatches), hour,
\* minute and second, read in the location of the search.
NextResultMatches ==
    (NextReturned /\ ~IsZero(ret)) => Matches(s, In(ret, loc))

\* C4: every instant other than the zero time that Prev returns matches the
\* schedule in all fields at once, for every schedule and every input.
PrevResultMatches ==
    (PrevReturned /\ ~IsZero(ret)) => Matches(s, In(ret, loc))

\* C5: Next returns the nearest match: when it returns r for t, no
\* whole-second instant u with t < u < r matches every field of the schedule.
NextSkipsNoMatch ==
    (NextReturned /\ ~IsZero(ret)) => ~MatchBetween(arg, ret)

\* C6: Prev returns the nearest match: when it returns r for t, no
\* whole-second instant u with r < u < t matches every field of the schedule.
PrevSkipsNoMatch ==
    (PrevReturned /\ ~IsZero(ret)) => ~MatchBetween(ret, arg)

\* C7: forward/backward consistency: when m matches the schedule in all
\* fields, Next called with m - 1 second returns m, and Prev called with
\* m + 1 second returns m.
NextPrevConsistent ==
    /\ (NextReturned /\ Nanosecond(arg) = 0 /\ Matches(s, In(Add(arg, 1), loc)))
          => Equal(ret, Add(arg, 1))
    /\ (PrevReturned /\ Nanosecond(arg) = 0 /\ Matches(s, In(Add(arg, -1), loc)))
          => Equal(ret, Add(arg, -1))

\* C8: repeated Next makes progress: when Next is called with the instant r
\* an earlier Next returned, it returns the zero time or an instant strictly
\* later than r.
RepeatedNextProgresses ==
    (NextReturned /\ calls > 1 /\ ~IsZero(ret)) => After(ret, arg)

\* C9: Next and Prev terminate: every call that has started reaches its
\* return, whatever the schedule (empty and unsatisfiable masks included) and
\* whatever the instant, so the cursor states of a call form no cycle.
Terminates == Running ~> (pc = "done")

\* A call on a schedule no date satisfies (the 31st of February) has searched
\* through WRAP restarts and returned the zero time.
TerminatesWitness ==
    /\ pc = "done" /\ IsZero(ret) /\ added
    /\ s.Dom = {31} /\ s.Month = {2}

\* The start of Next's search, its last year, and the first instant after
\* that year in the location of the search.
SearchStart == NextStart(In(arg, loc))
LastYear ==
    IF Year(SearchStart) + 5 < maxYear THEN Year(SearchStart) + 5 ELSE maxYear
YearEnd == CHOOSE u \in Date(LastYear + 1, 1, 1, 0, 0, 0, 0, loc) : TRUE

\* C10: Next returns the zero time only when no candidate exists within the
\* year bound: then no instant at or after the start of the search matches
\* every field in a year that is at most the start's year + 5 and at most
\* maxYear.
NextZeroOnlyWithoutMatch ==
    (NextReturned /\ IsZero(ret)) => ~MatchBetween(Add(SearchStart, -1), YearEnd)

\* The result of the last call, read in the location the search ran in.
Result == In(ret, loc)

\* The year Next's cursor may not pass: the smaller of yearLimit and maxYear.
NextLimit == IF yearLimit < maxYear THEN yearLimit ELSE maxYear

\* A cursor beyond the horizon is seen only at WRAP or by the year loop,
\* which returns the zero time at once.
NextCursorWithinHorizon ==
    (op = "Next" /\ pc # "idle" /\ Year(t) > NextLimit)
        => (pc = "wrap" \/ (pc = "done" /\ IsZero(ret)))

\* At WRAP a cursor beyond the horizon makes the call return the zero time.
NextWrapReturnsZero ==
    (op = "Next" /\ pc = "wrap" /\ Year(t) > NextLimit)
        => (pc' = "done" /\ IsZero(ret'))

\* C11 as worded: the year of the instant Next returns, as the caller
\* receives it (in the location of the argument), is in minYear .. maxYear
\* and at most 5 after the year the search started in; a cursor whose year
\* exceeds the limit makes the call return the zero time.
NextWithinHorizonAsReturned ==
    /\ (NextReturned /\ ~IsZero(ret))
           => /\ Year(ret) >= minYear
              /\ Year(ret) <= maxYear
              /\ Year(ret) <= Year(SearchStart) + 5
    /\ NextCursorWithinHorizon

\* C11: Next never returns an instant outside its horizon: the year of every
\* result other than the zero time, read in the location of the search, is in
\* minYear .. maxYear and at most 5 after the year the search started in; and
\* whenever the cursor's year exceeds that limit the call returns the zero
\* time.
NextWithinHorizon ==
    /\ [](/\ (NextReturned /\ ~IsZero(ret))
                 => /\ Year(Result) >= minYear
                    /\ Year(Result) <= maxYear
                    /\ Year(Result) <= Year(SearchStart) + 5
          /\ NextCursorWithinHorizon)
    /\ [][NextWrapReturnsZero]_vars

\* Next has returned an instant of a later year than the one its search
\* started in: the year loop or a WRAP restart moved the cursor's year.
NextWithinHorizonWitness ==
    /\ NextReturned /\ ~IsZero(ret)
    /\ Year(Result) > Year(SearchStart)
    /\ Year(SearchStart) >= minYear

\* C12: Prev never returns an instant outside its horizon: the year of every
\* result other than the zero time, read in the location of the search, is in
\* minYear .. maxYear and at most 5 before the year of the given instant; in
\* particular Prev returns no instant of 1969 or earlier, also when the
\* decrement of a finer field carried the cursor into the preceding year.
PrevWithinHorizon ==
    (PrevReturned /\ ~IsZero(ret))
        => /\ Year(Result) >= minYear
           /\ Year(Result) <= maxYear
           /\ Year(Result) >= Year(In(arg, loc)) - 5

\* The schedule asks for the 31st of February.
Day31OfFebruary == s.Dom = {31} /\ s.Month = {2}

\* The restriction flag is set on the day-of-month or the day-of-week mask.
DayFlagSet == Bit(s.Dom, maxBits) > 0 \/ Bit(s.Dow, maxBits) > 0

\* C13 as worded: for a schedule whose day-of-month mask is {31} and whose
\* month mask is {February}, Next returns the zero time for every instant.
NextOn31FebruaryIsZero ==
    (NextReturned /\ Day31OfFebruary) => IsZero(ret)

\* C13: for a schedule whose day-of-month mask is {31}, whose month mask is
\* {February} and whose day rule is conjunctive (the restriction flag is set,
\* as it is when the day of the week is unrestricted), Next returns the zero
\* time for every instant.
NextOnUnsatisfiableDateIsZero ==
    (NextReturned /\ Day31OfFebruary /\ DayFlagSet) => IsZero(ret)

\* Next has searched for a 31st of February under the conjunctive day rule,
\* passed the year limit and returned the zero time.
NextOnUnsatisfiableDateWitness ==
    /\ NextReturned /\ Day31OfFebruary /\ DayFlagSet
    /\ IsZero(ret)
    /\ Year(t) > yearLimit

\* The day rule as the specification words it: with the restriction flag on
\* either mask a date must match both masks, without it either one.
DayRule(sch, u) ==
    LET domMatch == Day(u) \in sch.Dom
        dowMatch == Weekday(u) \in sch.Dow
    IN  IF maxBits \in sch.Dom \/ maxBits \in sch.Dow
        THEN domMatch /\ dowMatch
        ELSE domMatch \/ dowMatch

\* A step that leaves the day loop of Next or Prev because dayMatches held of
\* the cursor, and a step of the loop's body because it did not.
DayLoopLeft == pc = "day" /\ pc' = "hour"
DayLoopStepped == pc = "day" /\ pc' \in {"day", "wrap"}

\* The schedule of the 15th that is also a Monday, with the flag set.
Monday15 == s.Dom = {15, maxBits} /\ s.Dow = {1, maxBits}

DayRuleStep ==
    /\ DayLoopLeft => DayRule(s, t)
    /\ DayLoopStepped => ~DayRule(s, t)
    /\ (DayLoopLeft /\ Monday15) => (Day(t) = 15 /\ Weekday(t) = 1)

\* C14: dayMatches returns domMatch AND dowMatch when the restriction flag
\* (bit maxBits) is set on the day-of-month or the day-of-week mask, and
\* domMatch OR dowMatch otherwise, for every schedule and every date the day
\* loops of Next and Prev test; so the schedule of day-of-month {15},
\* day-of-week {Monday} with the flag set accepts only dates that are both a
\* 15th and a Monday (weekday 1, Sunday being 0).
DayRuleApplied == [][DayRuleStep]_vars

\* Next has stepped its day loop to a 15th that is a Monday and left the loop
\* there, on the flagged schedule of the 15th and Monday.
DayRuleAppliedWitness ==
    /\ op = "Next" /\ pc = "hour" /\ Monday15
    /\ added /\ Hour(t) = 0 /\ Minute(t) = 0 /\ Second(t) = 0
    /\ Day(t) = 15 /\ Weekday(t) = 1
    /\ Day(SearchStart) # 15

\* The schedule fires at local midnight, and the search runs in Asia/Beirut,
\* where the start of summer time removes the midnight of the last Sunday of
\* March (in 2021, of 28 March).
AtMidnight == s.Hour = {0} /\ s.Minute = {0} /\ s.Second = {0}
InBeirut == loc = Beirut

\* C15: for a schedule that fires at local midnight, searched in a location
\* where the start of summer time removes a local midnight, Next returns no
\* instant whose local hour the hour mask does not allow, whatever the
\* instant around the transition it is given.
NextHourAllowedAcrossDst ==
    (NextReturned /\ ~IsZero(ret) /\ AtMidnight /\ InBeirut)
        => Bit(s.Hour, Hour(Result)) = 1

\* Next, given 22:30 of the evening before the midnight that does not exist,
\* has stepped its hour loop from 23:00 to 01:00 and returned the midnight of
\* 29 March.
NextHourAllowedAcrossDstWitness ==
    /\ NextReturned /\ ~IsZero(ret) /\ AtMidnight /\ InBeirut
    /\ Year(In(arg, loc)) = 2021 /\ Month(In(arg, loc)) = 3
    /\ Day(In(arg, loc)) = 27 /\ Hour(In(arg, loc)) = 22
    /\ Month(Result) = 3 /\ Day(Result) = 29 /\ Hour(Result) = 0

\* The schedule of every fifth minute, at second 0, with hour, day, month,
\* weekday and year unconstrained.
EveryFiveMinutes ==
    /\ s.Second = {0} /\ s.Minute = Every5 /\ s.Hour = Star(hours)
    /\ s.Dom = Star(dom) /\ s.Month = Star(months)
    /\ s.Dow = Star(dow) /\ s.Year = Star(years)

\* 15 March 2021 at the given time of day, UTC.
OnTheDay(h, mi, sec) ==
    MkTime(DaysFromCivil(2021, 3, 15), h * SecPerHour + mi * SecPerMinute + sec, 0, UTC)

\* C16: in UTC, for the schedule whose minute mask is {0, 5, 10, ..., 55}
\* with hour, day, month and weekday unconstrained, Next(10:03:00) is
\* 10:05:00 and Prev(10:03:00) is 10:00:00 of the same day.
EveryFiveMinutesScenario ==
    /\ (NextReturned /\ EveryFiveMinutes /\ arg = OnTheDay(10, 3, 0))
           => ret = OnTheDay(10, 5, 0)
    /\ (PrevReturned /\ EveryFiveMinutes /\ arg = OnTheDay(10, 3, 0))
           => ret = OnTheDay(10, 0, 0)

\* Prev(10:03:00) has stepped its minute loop down to minute 0, restarted at
\* WRAP, and returned 10:00:00.
EveryFiveMinutesWitness ==
    /\ PrevReturned /\ EveryFiveMinutes /\ arg = OnTheDay(10, 3, 0)
    /\ added /\ Hour(ret) = 10 /\ Minute(ret) = 0 /\ Second(ret) = 0

\* The second after u lies in another year, month, day, hour or minute: u is
\* in the last second of its unit.
LastSecondOfYear(u) == Year(Add(u, 1)) # Year(u)
LastSecondOfMonth(u) == Month(Add(u, 1)) # Month(u)
LastSecondOfDay(u) == Day(Add(u, 1)) # Day(u)
LastSecondOfHour(u) == Hour(Add(u, 1)) # Hour(u)
LastSecondOfMinute(u) == Minute(Add(u, 1)) # Minute(u)

\* A step of Prev that applies the correction of a field: it finds the
\* field's flag set and clears it.
Corrects(flag, at) == op = "Prev" /\ pc = at /\ flag /\ ~flag'

\* A step of Prev that moves the cursor on to the next field without the
\* field's correction was taken with the field's flag clear.
PrevRepositionStep ==
    /\ Corrects(addYear, "year") => LastSecondOfYear(t')
    /\ Corrects(addMonth, "month") => LastSecondOfMonth(t')
    /\ Corrects(addDay, "day") => LastSecondOfDay(t')
    /\ Corrects(addHour, "hour") => LastSecondOfHour(t')
    /\ Corrects(addMinute, "minute") => LastSecondOfMinute(t')
    /\ (op = "Prev" /\ pc = "year" /\ pc' = "month" /\ ~addYear) => t' = t
    /\ (op = "Prev" /\ pc = "month" /\ pc' = "day" /\ ~addMonth) => t' = t
    /\ (op = "Prev" /\ pc = "day" /\ pc' = "hour" /\ ~addDay) => t' = t
    /\ (op = "Prev" /\ pc = "hour" /\ pc' = "minute" /\ ~addHour) => t' = t
    /\ (op = "Prev" /\ pc = "minute" /\ pc' = "second" /\ ~addMinute) => t' = t

\* C17: whenever a field (year, month, day, hour or minute) was decremented
\* during a call of Prev, the correction applied when the field's loop is
\* over (one unit of the field added, one unit of the next finer field
\* subtracted) leaves the cursor in the last second of the matched year,
\* month, day, hour or minute; and the correction is applied once for the
\* decrements made: a step past a loop whose flag is clear leaves the cursor
\* alone.
PrevRepositionsToLastInstant == [][PrevRepositionStep]_vars

\* A step of the body of a field's loop in Prev: it decrements the field and
\* goes back to the loop's head or to WRAP.
PrevLoopStep(at) == op = "Prev" /\ pc = at /\ pc' \in {at, "wrap"}

\* A decrement that changed the next coarser field restarts at WRAP.
PrevWrapStep ==
    /\ (PrevLoopStep("month") /\ Year(t') # Year(t)) => pc' = "wrap"
    /\ (PrevLoopStep("day") /\ Month(t') # Month(t)) => pc' = "wrap"
    /\ (PrevLoopStep("hour") /\ Day(t') # Day(t)) => pc' = "wrap"
    /\ (PrevLoopStep("minute") /\ Hour(t') # Hour(t)) => pc' = "wrap"
    /\ (PrevLoopStep("second") /\ Minute(t') # Minute(t)) => pc' = "wrap"

\* C18: whenever a decrement in Prev wraps a field from its minimum to its
\* maximum and so changes a coarser field (January to December, day 1 to the
\* last day of the month before, hour 0 to 23, minute 0 to 59, second 0 to
\* 59), the search restarts at WRAP, where the year and then every coarser
\* field is verified again before a finer field is examined or a result
\* returned.
PrevWrapRestarts == [][PrevWrapStep]_vars

SecondBefore(u) == MkTime(u.day, u.sec - 1, 0, u.loc)

\* The search runs in a location whose offset is fixed.
FixedOffset == loc = UTC

=============================================================================
